---- MODULE Spec2Model ----
(***************************************************************************)
(* A model of app.py: the movement / mood / environment dashboard.         *)
(*                                                                         *)
(* The program is a batch pipeline over one table.  Four parts of it are   *)
(* modelled, each on the columns it reads:                                 *)
(*   SpecClassify  get_movement_type on one speed;                         *)
(*   SpecMood      calculate_mood_metrics on one record's ten items;       *)
(*   SpecMove      calculate_movement_speed on (Time, LATITUDE, LONGITUDE) *)
(*                 followed by main's daily view and its map;              *)
(*   SpecWeek      main's weekly view and calculate_weekly_stats on        *)
(*                 (Time, PM2.5_mean, PM10_mean, PositiveMood,             *)
(*                 NegativeMood).                                          *)
(*                                                                         *)
(* Floating point values are modelled exactly: a speed is NaN, +inf or     *)
(* sqrt(sq)/dt for integers sq >= 0 and dt # 0; a mean is NaN or a reduced *)
(* fraction.  Rounding error of the hardware floats is not modelled.       *)
(***************************************************************************)
EXTENDS Integers, Sequences, FiniteSets

VARIABLES
    cpc, speed, label,                      \* get_movement_type
    qpc, record, mood,                      \* calculate_mood_metrics
    mpc, track, enriched, selected_date, map_result,   \* movement + daily view
    wpc, df, available_weeks, selected_week, stats_result, shown  \* weekly view

classifyVars == <<cpc, speed, label>>
moodVars == <<qpc, record, mood>>
moveVars == <<mpc, track, enriched, selected_date, map_result>>
weekVars == <<wpc, df, available_weeks, selected_week, stats_result, shown>>
vars == <<classifyVars, moodVars, moveVars, weekVars>>

----------------------------------------------------------------------------
(* Bounds *)

MaxSpeedNum == 120      \* speeds 0/100 .. MaxSpeedNum/100 given to get_movement_type
MaxItem == 2            \* mood items are answered on the scale 1..MaxItem
MaxRowsM == 3           \* rows of the table in the movement view
MaxRowsW == 3           \* rows of the table in the weekly view

----------------------------------------------------------------------------
(* Floats as the movement code produces them *)

NaN == [k |-> "nan", sq |-> 0, dt |-> 1]
Inf == [k |-> "inf", sq |-> 0, dt |-> 1]
\* the finite value sqrt(sq)/dt
Fin(sq, dt) == [k |-> "fin", sq |-> sq, dt |-> dt]

\* n/100 as a float
Hundredths(n) == IF n >= 0 THEN Fin(n * n, 100) ELSE Fin(n * n, -100)

\* float comparison  s <= num/den
LessEq(s, num, den) ==
    /\ s.k = "fin"
    /\ \/ s.dt < 0
       \/ s.sq * den * den <= num * num * s.dt * s.dt

\* float comparison  s < num/den  (num, den > 0): false for NaN and +inf
LessThan(s, num, den) ==
    /\ s.k = "fin"
    /\ \/ s.dt < 0
       \/ s.sq * den * den < num * num * s.dt * s.dt

\* np.sqrt(sq) / dt with numpy's division: x/0 = inf, 0/0 = NaN
FloatDiv(sq, dt) ==
    IF dt = 0 THEN (IF sq = 0 THEN NaN ELSE Inf) ELSE Fin(sq, dt)

IsZero(s) == s.k = "fin" /\ s.sq = 0

----------------------------------------------------------------------------
(* get_movement_type *)

Labels == {"Standing Still", "Walking", "Running", "Driving"}

\* a variant that falls off the end for a speed no comparison accepts
get_movement_type_MutNoElse(s) ==
    IF LessThan(s, 5, 100) THEN "Standing Still"
    ELSE IF LessThan(s, 3, 10) THEN "Walking"
    ELSE IF LessThan(s, 1, 1) THEN "Running"
    ELSE IF s.k = "fin" THEN "Driving"
    ELSE "None"

\* a variant whose brackets are closed on the upper side
get_movement_type_MutLE(s) ==
    IF LessEq(s, 5, 100) THEN "Standing Still"
    ELSE IF LessEq(s, 3, 10) THEN "Walking"
    ELSE IF LessEq(s, 1, 1) THEN "Running"
    ELSE "Driving"

get_movement_type(s) ==
    IF LessThan(s, 5, 100) THEN "Standing Still"
    ELSE IF LessThan(s, 3, 10) THEN "Walking"
    ELSE IF LessThan(s, 1, 1) THEN "Running"
    ELSE "Driving"

ClassifyInputs ==
    {Hundredths(n) : n \in (0 - 10) .. MaxSpeedNum} \cup {NaN, Inf}

InitClassify ==
    /\ cpc = "input"
    /\ speed \in ClassifyInputs
    /\ label = "unset"

Classify ==
    /\ cpc = "input"
    /\ label' = get_movement_type(speed)
    /\ cpc' = "classified"
    /\ UNCHANGED <<speed, moodVars, moveVars, weekVars>>

----------------------------------------------------------------------------
(* calculate_mood_metrics *)

PositiveItems == {"HAPPY", "EXCITED", "CALM", "RELAXED", "PROUD"}
NegativeItems == {"IRRITABLE", "ANXIOUS", "SAD", "BORED", "LONELY"}
Items == PositiveItems \cup NegativeItems

\* a missing cell of the table (an empty CSV field, NaN in the frame)
NA == 0
ItemValues == {NA} \cup (1 .. MaxItem)

RECURSIVE GCD(_, _)
GCD(a, b) == IF b = 0 THEN a ELSE GCD(b, a % b)

Abs(x) == IF x < 0 THEN 0 - x ELSE x

\* a float that is NaN or the fraction num/den in lowest terms, den > 0
NaNQ == [k |-> "nan", num |-> 0, den |-> 1]
Frac(n, d) ==
    LET g == GCD(Abs(n), Abs(d))
        s == IF d < 0 THEN 0 - 1 ELSE 1
    IN [k |-> "val", num |-> (s * n) \div g, den |-> (s * d) \div g]

RECURSIVE SumOver(_, _)
SumOver(S, f) ==
    IF S = {} THEN 0
    ELSE LET x == CHOOSE y \in S : TRUE
         IN f[x] + SumOver(S \ {x}, f)

\* a row mean that counts a missing item as 0 instead of skipping it
RowMean_MutFillZero(rec, cols) == Frac(SumOver(cols, rec), Cardinality(cols))

\* DataFrame.mean(axis=1) on one row: skipna=True, NaN when nothing is present
RowMean(rec, cols) ==
    LET present == {c \in cols : rec[c] # NA}
    IN IF present = {} THEN NaNQ
       ELSE Frac(SumOver(present, rec), Cardinality(present))

calculate_mood_metrics(rec) ==
    [PositiveMood |-> RowMean(rec, PositiveItems),
     NegativeMood |-> RowMean(rec, NegativeItems)]

NoMood == [PositiveMood |-> NaNQ, NegativeMood |-> NaNQ]

InitMood ==
    /\ qpc = "input"
    /\ record \in [Items -> ItemValues]
    /\ mood = NoMood

ComposeMood ==
    /\ qpc = "input"
    /\ mood' = calculate_mood_metrics(record)
    /\ qpc' = "composed"
    /\ UNCHANGED <<record, classifyVars, moveVars, weekVars>>

----------------------------------------------------------------------------
(* Sequences of rows *)

\* all sequences over S of length 0..n
SeqsUpTo(S, n) == UNION {[1 .. m -> S] : m \in 0 .. n}

\* the subsequence of the rows that satisfy the mask, in their order
RECURSIVE MaskRows(_, _)
MaskRows(rows, mask) ==
    IF rows = <<>> THEN <<>>
    ELSE LET rest == MaskRows(Tail(rows), Tail(mask))
         IN IF Head(mask) THEN <<Head(rows)>> \o rest ELSE rest

----------------------------------------------------------------------------
(* Time: minutes since 00:00 of day 0, as '%d-%m-%Y %H:%M' parses it.      *)
(* Day 0 is a Monday, so that date.weekday() of day d is d % 7.            *)

MinutesPerDay == 1440
SecondsPerMinute == 60
DaysPerWeek == 7

\* Series.dt.date
DateOf(t) == t \div MinutesPerDay

\* an instant given as day, hour, minute
At(d, h, m) == d * MinutesPerDay + h * 60 + m

----------------------------------------------------------------------------
(* calculate_movement_speed and main's daily view *)

\* the instants, latitudes and longitudes (degrees) of the sample tables
MoveTimes == {At(0, 23, 58), At(0, 23, 59), At(1, 0, 0)}
Latitudes == {0, 3, 60}
Longitudes == {0, 4}

MoveRows == [Time : MoveTimes, LATITUDE : Latitudes, LONGITUDE : Longitudes]

\* Series.diff() followed by .dt.total_seconds(), for row i >= 2
ElapsedSeconds(rows, i) == (rows[i].Time - rows[i - 1].Time) * SecondsPerMinute

\* the speed column of line 38, row i
SpeedAt(rows, i) ==
    IF i = 1 THEN NaN
    ELSE LET dlat == rows[i].LATITUDE - rows[i - 1].LATITUDE
             dlon == rows[i].LONGITUDE - rows[i - 1].LONGITUDE
         IN FloatDiv(dlat * dlat + dlon * dlon, ElapsedSeconds(rows, i))

calculate_movement_speed(rows) ==
    [i \in 1 .. Len(rows) |->
        [Time |-> rows[i].Time,
         LATITUDE |-> rows[i].LATITUDE,
         LONGITUDE |-> rows[i].LONGITUDE,
         speed |-> SpeedAt(rows, i),
         movement_type |-> get_movement_type(SpeedAt(rows, i))]]

movement_colors ==
    [l \in Labels |->
        CASE l = "Standing Still" -> "blue"
          [] l = "Walking" -> "green"
          [] l = "Running" -> "orange"
          [] l = "Driving" -> "red"]

\* what st.selectbox returns on an empty list of options
None == 0 - 1

\* df['Time'].dt.date.unique()
AvailableDates(rows) == {DateOf(rows[i].Time) : i \in 1 .. Len(rows)}

\* df[df['Time'].dt.date == selected_date]
DayDf(rows, d) == MaskRows(rows, [i \in 1 .. Len(rows) |-> DateOf(rows[i].Time) = d])

\* the loop of the map view: one colour lookup per row of the day
MapView(day) ==
    IF \A i \in 1 .. Len(day) : day[i].movement_type \in DOMAIN movement_colors
    THEN "ok" ELSE "KeyError"

InitMove ==
    /\ mpc = "loaded"
    /\ track \in SeqsUpTo(MoveRows, MaxRowsM)
    /\ enriched = <<>>
    /\ selected_date = None
    /\ map_result = "none"

\* main, lines 62-64
Enrich ==
    /\ mpc = "loaded"
    /\ enriched' = calculate_movement_speed(track)
    /\ mpc' = "enriched"
    /\ UNCHANGED <<track, selected_date, map_result>>
    /\ UNCHANGED <<classifyVars, moodVars, weekVars>>

\* main, lines 68-168, for the date the user selects
DailyView ==
    /\ mpc = "enriched"
    /\ \E d \in (IF AvailableDates(enriched) = {} THEN {None} ELSE AvailableDates(enriched)) :
          LET day_df == DayDf(enriched, d)
          IN /\ selected_date' = d
             /\ IF day_df = <<>>
                THEN /\ map_result' = "none"
                     /\ mpc' = "warned"
                ELSE /\ map_result' = MapView(day_df)
                     /\ mpc' = "mapped"
    /\ UNCHANGED <<track, enriched>>
    /\ UNCHANGED <<classifyVars, moodVars, weekVars>>

----------------------------------------------------------------------------
(* scipy.stats.pearsonr as calculate_weekly_stats calls it *)

\* a coefficient: NaN, or sgn * sqrt(num/den) with num/den in lowest terms
NaNR == [k |-> "nan", sgn |-> 0, num |-> 0, den |-> 1]
RVal(cov, vx, vy) ==
    LET f == Frac(cov * cov, vx * vy)
    IN [k |-> "val", sgn |-> (IF cov > 0 THEN 1 ELSE IF cov < 0 THEN 0 - 1 ELSE 0),
        num |-> f.num, den |-> f.den]

\* a p-value: NaN, or the two-sided p of a coefficient with r^2 = num/den on n pairs
NaNP == [k |-> "nan", n |-> 0, num |-> 0, den |-> 1]
PVal(n, r) == [k |-> "val", n |-> n, num |-> r.num, den |-> r.den]

RECURSIVE SumSeq(_)
SumSeq(q) == IF q = <<>> THEN 0 ELSE Head(q) + SumSeq(Tail(q))

Products(x, y) == [i \in 1 .. Len(x) |-> x[i] * y[i]]

\* (x == x[0]).all(): NaN equals nothing, itself included
IsConstant(x) == x[1] # NA /\ \A i \in 1 .. Len(x) : x[i] = x[1]

HasNaN(x) == \E i \in 1 .. Len(x) : x[i] = NA

\* the coefficient of two series without NaN, neither constant
PearsonR(x, y) ==
    LET n == Len(x)
        cov == n * SumSeq(Products(x, y)) - SumSeq(x) * SumSeq(y)
        vx == n * SumSeq(Products(x, x)) - SumSeq(x) * SumSeq(x)
        vy == n * SumSeq(Products(y, y)) - SumSeq(y) * SumSeq(y)
    IN RVal(cov, vx, vy)

\* what pearsonr's two-point shortcut gives as the p-value of a NaN coefficient:
\* 1.0 where the shortcut returns a literal, NaN where it is computed
N2PValues == {"one", "nan"}

\* pearsonr(x, y): ValueError below two points; (nan, nan) for a constant
\* input; NaN in an input propagates to the coefficient
pearsonr(x, y, n2p) ==
    IF Len(x) < 2 THEN
        [raised |-> TRUE, correlation |-> NaNR, p_value |-> NaNP]
    ELSE IF IsConstant(x) \/ IsConstant(y) THEN
        [raised |-> FALSE, correlation |-> NaNR, p_value |-> NaNP]
    ELSE IF HasNaN(x) \/ HasNaN(y) THEN
        [raised |-> FALSE, correlation |-> NaNR,
         p_value |-> IF Len(x) = 2 /\ n2p = "one"
                     THEN [k |-> "val", n |-> 2, num |-> 1, den |-> 1] ELSE NaNP]
    ELSE
        [raised |-> FALSE, correlation |-> PearsonR(x, y),
         p_value |-> PVal(Len(x), PearsonR(x, y))]

----------------------------------------------------------------------------
(* calculate_weekly_stats and main's weekly view *)

WeekTimes == {At(6, 23, 59), At(7, 0, 0), At(13, 23, 59), At(14, 0, 0)}
\* the (PM2.5_mean, PM10_mean, PositiveMood, NegativeMood) cells of the sample rows
WeekCells == {<<1, 1, 1, 2>>, <<2, 2, 2, 1>>, <<NA, 2, 2, 2>>, <<1, 2, 2, NA>>}

WeekRows ==
    {[Time |-> t, PM25_mean |-> c[1], PM10_mean |-> c[2],
      PositiveMood |-> c[3], NegativeMood |-> c[4]] : t \in WeekTimes, c \in WeekCells}

Pollutants == {"PM2.5_mean", "PM10_mean"}
Moods == {"PositiveMood", "NegativeMood"}
Pairs == Pollutants \X Moods

\* week_df[column]
Column(rows, c) ==
    [i \in 1 .. Len(rows) |->
        CASE c = "PM2.5_mean" -> rows[i].PM25_mean
          [] c = "PM10_mean" -> rows[i].PM10_mean
          [] c = "PositiveMood" -> rows[i].PositiveMood
          [] c = "NegativeMood" -> rows[i].NegativeMood]

\* a mask whose last day is start_date + 7
WeekMask_MutSevenDays(rows, start_date) ==
    [i \in 1 .. Len(rows) |->
        DateOf(rows[i].Time) >= start_date /\ DateOf(rows[i].Time) <= start_date + 7]

\* lines 43-44
WeekMask(rows, start_date) ==
    LET end_date == start_date + 6
    IN [i \in 1 .. Len(rows) |->
        DateOf(rows[i].Time) >= start_date /\ DateOf(rows[i].Time) <= end_date]

calculate_weekly_stats(rows, start_date, n2p) ==
    LET week_df == MaskRows(rows, WeekMask(rows, start_date))
        res == [p \in Pairs |-> pearsonr(Column(week_df, p[1]), Column(week_df, p[2]), n2p)]
    IN [raised |-> \E p \in Pairs : res[p].raised,
        correlations |-> [p \in Pairs |->
            [correlation |-> res[p].correlation, p_value |-> res[p].p_value]],
        week_df |-> week_df]

RECURSIVE DateRangeWMon(_, _)
\* pd.date_range(start, end, freq='W-MON'): the Mondays of start..end
DateRangeWMon(start, end) ==
    IF start > end THEN <<>>
    ELSE IF start % DaysPerWeek = 0
         THEN <<start>> \o DateRangeWMon(start + DaysPerWeek, end)
         ELSE DateRangeWMon(start + 1, end)

Dates(rows) == {DateOf(rows[i].Time) : i \in 1 .. Len(rows)}
MinDate(rows) == CHOOSE d \in Dates(rows) : \A e \in Dates(rows) : d <= e
MaxDate(rows) == CHOOSE d \in Dates(rows) : \A e \in Dates(rows) : d >= e

Range(q) == {q[i] : i \in 1 .. Len(q)}

NoStats ==
    [raised |-> FALSE,
     correlations |-> [p \in Pairs |-> [correlation |-> NaNR, p_value |-> NaNP]],
     week_df |-> <<>>]

InitWeek ==
    /\ wpc = "loaded"
    /\ df \in SeqsUpTo(WeekRows, MaxRowsW) \ {<<>>}
    /\ available_weeks = <<>>
    /\ selected_week = None
    /\ stats_result = NoStats
    /\ shown = "none"

\* main, lines 171-176: the weeks offered and the one the user selects
SelectWeek ==
    /\ wpc = "loaded"
    /\ LET weeks == DateRangeWMon(MinDate(df), MaxDate(df))
       IN /\ available_weeks' = weeks
          /\ selected_week' \in (IF weeks = <<>> THEN {None} ELSE Range(weeks))
    /\ wpc' = "selected"
    /\ UNCHANGED <<df, stats_result, shown>>
    /\ UNCHANGED <<classifyVars, moodVars, moveVars>>

\* main, lines 178-216: the statistics of the selected week, then the heat map
\* and the summary, which take the coefficients as they are
WeeklyAnalysis ==
    /\ wpc = "selected"
    /\ IF selected_week = None
       THEN /\ wpc' = "crashed"
            /\ shown' = "AttributeError"
            /\ UNCHANGED stats_result
       ELSE \E r \in {calculate_weekly_stats(df, selected_week, n2p) : n2p \in N2PValues} :
               IF r.raised
               THEN /\ wpc' = "crashed"
                    /\ shown' = "ValueError"
                    /\ UNCHANGED stats_result
               ELSE /\ wpc' = "rendered"
                    /\ stats_result' = r
                    /\ shown' = IF \E p \in Pairs : r.correlations[p].correlation.k = "nan"
                                THEN "nan in heatmap" ELSE "numbers"
    /\ UNCHANGED <<df, available_weeks, selected_week>>
    /\ UNCHANGED <<classifyVars, moodVars, moveVars>>

----------------------------------------------------------------------------
(* Specifications *)

ClassifyIdle == cpc = "off" /\ speed = NaN /\ label = "unset"
MoodIdle == qpc = "off" /\ record = [c \in Items |-> NA] /\ mood = NoMood
MoveIdle ==
    /\ mpc = "off" /\ track = <<>> /\ enriched = <<>>
    /\ selected_date = None /\ map_result = "none"
WeekIdle ==
    /\ wpc = "off" /\ df = <<>> /\ available_weeks = <<>>
    /\ selected_week = None /\ stats_result = NoStats /\ shown = "none"

InitC == InitClassify /\ MoodIdle /\ MoveIdle /\ WeekIdle
NextClassify == Classify
SpecClassify == InitC /\ [][NextClassify]_vars

InitQ == ClassifyIdle /\ InitMood /\ MoveIdle /\ WeekIdle
NextMood == ComposeMood
SpecMood == InitQ /\ [][NextMood]_vars

InitM == ClassifyIdle /\ MoodIdle /\ InitMove /\ WeekIdle
NextMove == Enrich \/ DailyView
SpecMove == InitM /\ [][NextMove]_vars

InitW == ClassifyIdle /\ MoodIdle /\ MoveIdle /\ InitWeek
NextWeek == SelectWeek \/ WeeklyAnalysis
SpecWeek == InitW /\ [][NextWeek]_vars

----------------------------------------------------------------------------
(* Properties *)

Enriched == mpc \in {"enriched", "warned", "mapped"}

\* C1: get_movement_type gives every non-negative speed exactly the label of
\* its bracket, the brackets being closed below and open above: below 0.05
\* Standing Still, from 0.05 below 0.3 Walking, from 0.3 below 1 Running,
\* from 1 on Driving.
C1_Brackets ==
    cpc = "classified" =>
        \A n \in 0 .. MaxSpeedNum :
            speed = Hundredths(n) =>
                label = (IF n < 5 THEN "Standing Still"
                         ELSE IF n < 30 THEN "Walking"
                         ELSE IF n < 100 THEN "Running"
                         ELSE "Driving")

\* a speed exactly on a bound has been classified into the next bracket
C1_Witness ==
    /\ cpc = "classified"
    /\ \/ speed = Hundredths(5) /\ label = "Walking"
       \/ speed = Hundredths(30) /\ label = "Running"
       \/ speed = Hundredths(100) /\ label = "Driving"

\* C2: a row whose timestamp equals its predecessor's gets speed 0 and is
\* classified Standing Still.
C2_ZeroElapsedIsZero ==
    Enriched =>
        \A i \in 2 .. Len(enriched) :
            track[i].Time = track[i - 1].Time =>
                /\ IsZero(enriched[i].speed)
                /\ enriched[i].movement_type = "Standing Still"

\* C3: the first row of a non-empty table gets speed 0 and Standing Still, and
\* no row carries a missing speed.
C3_FirstRowStill ==
    (Enriched /\ Len(enriched) >= 1) =>
        /\ IsZero(enriched[1].speed)
        /\ enriched[1].movement_type = "Standing Still"
        /\ \A i \in 1 .. Len(enriched) : enriched[i].speed.k # "nan"

AxisComposite(m, cols) ==
    LET present == {c \in cols : record[c] # NA}
    IN /\ (m.k = "nan") <=> (present = {})
       /\ present # {} =>
            /\ m.k = "val"
            /\ m.den > 0
            /\ m.num * Cardinality(present) = SumOver(present, record) * m.den

\* C4: on each axis the composite is undefined exactly when all five items of
\* the axis are missing, and is otherwise the mean of the present items of
\* that axis alone.
C4_MoodComposite ==
    qpc = "composed" =>
        /\ AxisComposite(mood.PositiveMood, PositiveItems)
        /\ AxisComposite(mood.NegativeMood, NegativeItems)

\* a positive axis with missing items next to an entirely missing negative axis
C4_Witness ==
    /\ qpc = "composed"
    /\ record["HAPPY"] = 2 /\ record["EXCITED"] = NA /\ record["CALM"] = 1
    /\ record["RELAXED"] = NA /\ record["PROUD"] = NA
    /\ \A c \in NegativeItems : record[c] = NA
    /\ mood.PositiveMood = [k |-> "val", num |-> 3, den |-> 2]
    /\ mood.NegativeMood.k = "nan"

WeekOf(rows, w) == SelectSeq(rows, LAMBDA r : DateOf(r.Time) \in w .. w + 6)

\* the rows of the week where both columns of the pair are present
CompleteCases(rows, p) ==
    LET x == Column(rows, p[1])
        y == Column(rows, p[2])
    IN MaskRows(rows, [i \in 1 .. Len(rows) |-> x[i] # NA /\ y[i] # NA])

\* fewer than two paired observations, or a constant series among them
Insufficient(rows, p) ==
    LET cc == CompleteCases(rows, p)
    IN \/ Len(cc) < 2
       \/ IsConstant(Column(cc, p[1]))
       \/ IsConstant(Column(cc, p[2]))

WeekDone == wpc \in {"rendered", "crashed"} /\ selected_week # None

\* C5: for a pair with insufficient data in the selected week the weekly view
\* neither raises nor carries a NaN coefficient or p-value into the heat map
\* and the summary.
C5_InsufficientIsExplicit ==
    WeekDone =>
        \A p \in Pairs :
            Insufficient(WeekOf(df, selected_week), p) =>
                /\ wpc = "rendered"
                /\ stats_result.correlations[p].correlation.k # "nan"
                /\ stats_result.correlations[p].p_value.k # "nan"

\* C6: the weeks offered partition the records: every record lies in exactly
\* one offered week, and a non-empty table has an offered week.
C6_WeeksPartition ==
    wpc \in {"selected", "rendered", "crashed"} =>
        /\ available_weeks # <<>>
        /\ \A i \in 1 .. Len(df) :
              Cardinality({w \in Range(available_weeks) :
                            DateOf(df[i].Time) \in w .. w + 6}) = 1

\* C7: speeds are differenced in timestamp order, so no speed is derived from
\* a negative elapsed time.
C7_TimeOrdered ==
    Enriched =>
        \A i \in 2 .. Len(enriched) :
            enriched[i].speed.k = "fin" => enriched[i].speed.dt > 0

\* C8: each pair is correlated over the rows of the week where both of its
\* columns are present, so a missing value elsewhere or in a dropped row does
\* not make the pair's coefficient missing.
C8_PairwiseComplete ==
    WeekDone =>
        \A p \in Pairs :
            LET cc == CompleteCases(WeekOf(df, selected_week), p)
            IN ~Insufficient(WeekOf(df, selected_week), p) =>
                /\ wpc = "rendered"
                /\ stats_result.correlations[p].correlation =
                        PearsonR(Column(cc, p[1]), Column(cc, p[2]))

\* C9: the week_df that calculate_weekly_stats returns holds exactly the rows
\* with start 00:00 <= Time < start + 7 days 00:00, in their order in the
\* table, and the start main passes is a Monday.
C9_WeekRows ==
    wpc = "rendered" =>
        /\ selected_week % DaysPerWeek = 0
        /\ stats_result.week_df =
              SelectSeq(df, LAMBDA r :
                  /\ r.Time >= At(selected_week, 0, 0)
                  /\ r.Time < At(selected_week + DaysPerWeek, 0, 0))

\* a returned week that keeps its first and last minute and leaves out the
\* minute before it or the minute after it
C9_Witness ==
    /\ wpc = "rendered"
    /\ selected_week = 7
    /\ \E i \in 1 .. Len(stats_result.week_df) : stats_result.week_df[i].Time = At(7, 0, 0)
    /\ \E i \in 1 .. Len(stats_result.week_df) : stats_result.week_df[i].Time = At(13, 23, 59)
    /\ \E i \in 1 .. Len(df) : df[i].Time \in {At(6, 23, 59), At(14, 0, 0)}

\* C10: every enriched row carries one of the four labels, whatever its
\* speed, and the colour lookup of the map never fails.
C10_LabelsTotal ==
    /\ Enriched => \A i \in 1 .. Len(enriched) : enriched[i].movement_type \in Labels
    /\ map_result # "KeyError"

\* a mapped day with a missing, an infinite and a negative speed
C10_Witness ==
    /\ mpc = "mapped"
    /\ map_result = "ok"
    /\ LET day == DayDf(enriched, selected_date)
       IN /\ \E i \in 1 .. Len(day) : day[i].speed.k = "nan"
          /\ \E i \in 1 .. Len(day) : day[i].speed.k = "inf"
          /\ \E i \in 1 .. Len(day) : day[i].speed.k = "fin" /\ day[i].speed.dt < 0

====
